---- MODULE Spec2Model ----
(***************************************************************************)
(* Model of 1._multithreaded_translation.py: translate_text,               *)
(* translate_dataframe_segment and translate_dataframe, with the           *)
(* ThreadPool that runs the segments and the translation provider as an    *)
(* external call that may return or raise.                                 *)
(***************************************************************************)
EXTENDS Integers, Sequences, FiniteSets, TLC

\* ------------------------------------------------------------------ bounds
MaxRows == 3
MaxThreads == 2
MaxLongRows == 10

\* ------------------------------------------------------- program constants
checkpoint_interval == 5

target_language == "de"

Sentinel == [type |-> "str", val |-> "no translation"]

\* ------------------------------------------------------------ cell values
\* A cell of the text column is a Python value: a str (possibly empty), or
\* the float NaN that pandas.read_csv gives for a missing cell.
Str(s) == [type |-> "str", val |-> s]

NaN == [type |-> "float", val |-> "nan"]

Texts == {Str("a"), Str(""), NaN}

IsStr(v) == v.type = "str"

\* The values --num_threads may take (type=int: zero and negatives parse).
NumThreadsValues == (-1)..MaxThreads

\* A dataframe as read by pd.read_csv: rows in order, RangeIndex 0..len-1, the
\* text column, and the file's other columns (one value, distinct per row).
Frames ==
    UNION {{[k \in 1..len |-> [idx |-> k - 1, other |-> 100 + k, text |-> t[k]]] :
              t \in [1..len -> Texts]} : len \in 0..MaxRows}

\* ------------------------------------------------------------- arithmetic
Min(a, b) == IF a < b THEN a ELSE b

Max(a, b) == IF a > b THEN a ELSE b

\* Python's // (floor division), b # 0.
FloorDiv(a, b) == IF b > 0 THEN a \div b ELSE (0 - a) \div (0 - b)

\* Python's slice bound normalisation: negative counts from the end, and
\* every bound is clamped to 0..len.
SliceBound(i, len) == IF i < 0 THEN Max(0, len + i) ELSE Min(i, len)

\* df.iloc[a:b]
iloc(df, a, b) == SubSeq(df, SliceBound(a, Len(df)) + 1, SliceBound(b, Len(df)))

RECURSIVE concat(_)
\* pd.concat of a list of frames: the frames' rows, frame after frame.
concat(frames) ==
    IF frames = << >> THEN << >>
    ELSE Head(frames) \o concat(Tail(frames))

\* DataFrame.reset_index(drop=True): rows keep their order, labels 0..len-1.
reset_index(df) == [k \in 1..Len(df) |-> [df[k] EXCEPT !.idx = k - 1]]

\* ---------------------------------------------------------- the provider
\* One call's outcome: the provider returns a translation or raises.
Outcomes == {"ok", "err"}

\* What GoogleTranslator(...).translate(text) returns when it returns.
Translation(text, lang) == Str(lang \o ":" \o text.val)

\* translate_text: the provider's output; on a provider exception the
\* handler formats text[:30] for the log, which raises TypeError for a text
\* that is not subscriptable (NaN), and otherwise returns the sentinel.
translate_text(text, lang, outcome) ==
    IF outcome = "ok"
    THEN [raised |-> FALSE, val |-> Translation(text, lang), exc |-> ""]
    ELSE IF IsStr(text)
         THEN [raised |-> FALSE, val |-> Sentinel, exc |-> ""]
         ELSE [raised |-> TRUE, val |-> Sentinel, exc |-> "TypeError"]

\* ------------------------------------------------------------ partitioning
\* Variant: the chunk size rounded up instead of down.
chunk_size_ceil(len, n) == FloorDiv(len + n - 1, n)

chunk_size(len, n) == FloorDiv(len, n)

\* Variant: label-style slices, which include their upper bound.
Chunks_inclusive(df, n) ==
    [i \in 1..n |-> iloc(df, (i - 1) * chunk_size(Len(df), n),
                             i * chunk_size(Len(df), n) + 1)]

\* [df.iloc[i*chunk_size : (i+1)*chunk_size] for i in range(num_threads)]
Chunks(df, n) ==
    [i \in 1..n |-> iloc(df, (i - 1) * chunk_size(Len(df), n),
                             i * chunk_size(Len(df), n))]

\* Variant: the last chunk is left as sliced.
AdjustLastChunk_skipped(chunks, df, n) == chunks

\* df_chunks[-1] = pd.concat([df_chunks[-1], df.iloc[num_threads*chunk_size:]])
AdjustLastChunk(chunks, df, n) ==
    [chunks EXCEPT ![Len(chunks)] =
        concat(<<chunks[Len(chunks)],
                 iloc(df, n * chunk_size(Len(df), n), Len(df))>>)]

Partition(df, n) == AdjustLastChunk(Chunks(df, n), df, n)

\* ------------------------------------------------------------------ state
VARIABLES
    df,             \* the input dataframe
    num_threads,    \* the requested degree of concurrency
    pc,             \* where translate_dataframe is
    error,          \* the exception translate_dataframe raised, "" if none
    raised_from,    \* the segment whose exception that is, 0 if none
    dirs,           \* directories created so far
    df_chunks,      \* the segments, df_chunks[i+1] is segment i
    taskqueue,      \* the pool's queue: segments submitted and not yet taken
    workers,        \* the pool's threads
    results,        \* the AsyncResult of each segment
    logged,         \* per segment, the counts its progress lines reported
    calls,          \* per input row, the outcomes of the provider calls made for it
    completed,      \* the segments in the order their tasks ended
    translated_df,  \* the merged frame
    output_file     \* the frames written to df_translated.csv, in order

vars == <<df, num_threads, pc, error, raised_from, dirs, df_chunks, taskqueue, workers,
          results, logged, calls, completed, translated_df, output_file>>

IdleWorker ==
    [st |-> "idle", task |-> 0, pos |-> 0, inflight |-> 0,
     translated_texts |-> << >>, counter |-> 0]

Pending == [st |-> "pending", val |-> << >>, exc |-> "", by |-> 0]

Init ==
    /\ df \in Frames
    /\ num_threads \in NumThreadsValues
    /\ pc = "start"
    /\ error = ""
    /\ raised_from = 0
    /\ dirs = {}
    /\ df_chunks = << >>
    /\ taskqueue = << >>
    /\ workers = << >>
    /\ results = << >>
    /\ logged = << >>
    /\ calls = [k \in 1..Len(df) |-> << >>]
    /\ completed = << >>
    /\ translated_df = << >>
    /\ output_file = << >>

\* ------------------------------------------------- translate_dataframe
\* os.makedirs(save_dir, exist_ok=True)
MakeSaveDir ==
    /\ pc = "start"
    /\ dirs' = dirs \cup {<<"dfs_translated", 0>>}
    /\ pc' = "split"
    /\ UNCHANGED <<df, num_threads, error, raised_from, df_chunks, taskqueue, workers,
                   results, logged, calls, completed, translated_df, output_file>>

\* chunk_size = len(df) // num_threads raises ZeroDivisionError for 0; for a
\* negative num_threads range() is empty and df_chunks[-1] raises IndexError.
Split ==
    /\ pc = "split"
    /\ IF num_threads = 0
       THEN pc' = "failed" /\ error' = "ZeroDivisionError" /\ UNCHANGED df_chunks
       ELSE IF num_threads < 0
       THEN pc' = "failed" /\ error' = "IndexError" /\ UNCHANGED df_chunks
       ELSE pc' = "mkdirs" /\ df_chunks' = Partition(df, num_threads)
                           /\ UNCHANGED error
    /\ UNCHANGED <<df, num_threads, raised_from, dirs, taskqueue, workers,
                   results, logged, calls, completed, translated_df, output_file>>

\* for path in save_paths: os.makedirs(path, exist_ok=True)
MakeSegmentDirs ==
    /\ pc = "mkdirs"
    /\ dirs' = dirs \cup {<<"sub_dfs_translated", i>> : i \in 1..num_threads}
    /\ pc' = "dispatch"
    /\ UNCHANGED <<df, num_threads, error, raised_from, df_chunks, taskqueue, workers,
                   results, logged, calls, completed, translated_df, output_file>>

\* Variant: one thread fewer than segments.
PoolSize_one_less(n) == Max(1, n - 1)

\* ThreadPool(num_threads): the number of threads of the pool.
PoolSize(n) == n

\* range(num_threads) of the apply_async list: the segments submitted, in order.
Submitted(n) == [i \in 1..n |-> i]

\* pool = ThreadPool(num_threads); results = [pool.apply_async(...) ...]
Dispatch ==
    /\ pc = "dispatch"
    /\ workers' = [t \in 1..PoolSize(num_threads) |-> IdleWorker]
    /\ taskqueue' = Submitted(num_threads)
    /\ results' = [i \in 1..num_threads |-> Pending]
    /\ logged' = [i \in 1..num_threads |-> << >>]
    /\ pc' = "join"
    /\ UNCHANGED <<df, num_threads, error, raised_from, dirs, df_chunks, calls, completed,
                   translated_df, output_file>>

\* ------------------------------------- the pool's threads, one task at a time
\* A pool thread takes the next submitted segment from the queue and calls
\* translate_dataframe_segment on it: translated_texts = [], counter = 0.
TakeTask(t) ==
    /\ pc = "join"
    /\ workers[t].st = "idle"
    /\ taskqueue # << >>
    /\ workers' = [workers EXCEPT ![t] =
                      [IdleWorker EXCEPT !.st = "busy", !.task = Head(taskqueue)]]
    /\ taskqueue' = Tail(taskqueue)
    /\ UNCHANGED <<df, num_threads, pc, error, raised_from, dirs, df_chunks, results, logged,
                   calls, completed, translated_df, output_file>>

\* Variant: the next call is issued while the previous one is still out.
MayStartCall_nowait(w, seg) == w.pos + w.inflight < Len(seg)

\* for idx, row in df_segment.iterrows(): translate_text(row.text, ...) is a
\* synchronous call: the loop reaches the next row only when it has returned.
MayStartCall(w, seg) == w.inflight = 0 /\ w.pos + w.inflight < Len(seg)

\* The thread enters the provider call for the next row of its segment.
StartCall(t) ==
    /\ pc = "join"
    /\ workers[t].st = "busy"
    /\ MayStartCall(workers[t], df_chunks[workers[t].task])
    /\ workers' = [workers EXCEPT ![t].inflight = @ + 1]
    /\ UNCHANGED <<df, num_threads, pc, error, raised_from, dirs, df_chunks, taskqueue,
                   results, logged, calls, completed, translated_df, output_file>>

\* Variant: the test is made before the row is counted.
Checkpoint_before_count(log, counter) ==
    IF (counter - 1) % checkpoint_interval = 0 THEN Append(log, counter) ELSE log

\* if counter % checkpoint_interval == 0: logging.info(... counter ...)
Checkpoint(log, counter) ==
    IF counter % checkpoint_interval = 0 THEN Append(log, counter) ELSE log

\* The provider returns or raises; translate_text's result is appended and
\* counted, or its exception leaves translate_dataframe_segment and the pool
\* stores it in the segment's AsyncResult.
ReturnCall(t) ==
    /\ pc = "join"
    /\ workers[t].st = "busy"
    /\ workers[t].inflight > 0
    /\ \E o \in Outcomes :
         LET w == workers[t]
             row == df_chunks[w.task][w.pos + 1]
             r == translate_text(row.text, target_language, o)
         IN /\ calls' = [calls EXCEPT ![row.idx + 1] = Append(@, o)]
            /\ IF r.raised
               THEN /\ results' = [results EXCEPT ![w.task] =
                          [st |-> "error", val |-> << >>, exc |-> r.exc, by |-> t]]
                    /\ workers' = [workers EXCEPT ![t] = IdleWorker]
                    /\ completed' = Append(completed, w.task)
                    /\ UNCHANGED logged
               ELSE /\ workers' = [workers EXCEPT ![t] =
                          [w EXCEPT !.pos = @ + 1, !.inflight = @ - 1,
                                    !.translated_texts = Append(@, r.val),
                                    !.counter = @ + 1]]
                    /\ logged' = [logged EXCEPT ![w.task] =
                                     Checkpoint(@, w.counter + 1)]
                    /\ UNCHANGED <<results, completed>>
    /\ UNCHANGED <<df, num_threads, pc, error, raised_from, dirs, df_chunks, taskqueue,
                   translated_df, output_file>>

\* Variant: the translations are stored over the text column as well.
AddColumn_over_text(seg, texts) ==
    IF Len(texts) = Len(seg)
    THEN [st |-> "value",
          val |-> [k \in 1..Len(seg) |->
                      [idx |-> seg[k].idx, other |-> seg[k].other,
                       text |-> texts[k], text_translated |-> texts[k]]],
          exc |-> ""]
    ELSE [st |-> "error", val |-> << >>, exc |-> "ValueError"]

\* df_segment['text_translated'] = translated_texts; return df_segment.
\* pandas raises ValueError when the list's length is not the frame's.
AddColumn(seg, texts) ==
    IF Len(texts) = Len(seg)
    THEN [st |-> "value",
          val |-> [k \in 1..Len(seg) |->
                      [idx |-> seg[k].idx, other |-> seg[k].other,
                       text |-> seg[k].text, text_translated |-> texts[k]]],
          exc |-> ""]
    ELSE [st |-> "error", val |-> << >>, exc |-> "ValueError"]

\* The loop is over: the segment gets its column and is the task's result.
FinishSegment(t) ==
    /\ pc = "join"
    /\ workers[t].st = "busy"
    /\ workers[t].inflight = 0
    /\ workers[t].pos = Len(df_chunks[workers[t].task])
    /\ LET w == workers[t]
           r == AddColumn(df_chunks[w.task], w.translated_texts)
       IN results' = [results EXCEPT ![w.task] =
                         [st |-> r.st, val |-> r.val, exc |-> r.exc, by |-> t]]
    /\ workers' = [workers EXCEPT ![t] = IdleWorker]
    /\ completed' = Append(completed, workers[t].task)
    /\ UNCHANGED <<df, num_threads, pc, error, raised_from, dirs, df_chunks, taskqueue,
                   logged, calls, translated_df, output_file>>

\* Variant: the results are read without waiting for the pool.
Join_nowait ==
    /\ pc = "join"
    /\ pc' = "merge"
    /\ UNCHANGED <<df, num_threads, error, raised_from, dirs, df_chunks, taskqueue, workers,
                   results, logged, calls, completed, translated_df, output_file>>

\* Variant: the wait ends only when every task has ended with a segment.
Join_until_all_succeed ==
    /\ pc = "join"
    /\ taskqueue = << >>
    /\ \A t \in DOMAIN workers : workers[t].st = "idle"
    /\ \A i \in DOMAIN results : results[i].st = "value"
    /\ pc' = "merge"
    /\ UNCHANGED <<df, num_threads, error, raised_from, dirs, df_chunks, taskqueue, workers,
                   results, logged, calls, completed, translated_df, output_file>>

\* pool.close(); pool.join(): returns when the queue is drained and every
\* thread has finished its task.
Join ==
    /\ pc = "join"
    /\ taskqueue = << >>
    /\ \A t \in DOMAIN workers : workers[t].st = "idle"
    /\ pc' = "merge"
    /\ UNCHANGED <<df, num_threads, error, raised_from, dirs, df_chunks, taskqueue, workers,
                   results, logged, calls, completed, translated_df, output_file>>

\* [res.get() for res in results]: get() re-raises the task's exception; the
\* list is built in submission order, so the first failed segment's is raised.
Failed(res) == {i \in DOMAIN res : res[i].st = "error"}

\* Variant: the exception of the task that failed first in time.
FirstFailed_in_time(res) ==
    completed[CHOOSE q \in 1..Len(completed) :
                 /\ completed[q] \in Failed(res)
                 /\ \A r \in 1..(q - 1) : completed[r] \notin Failed(res)]

FirstFailed(res) == CHOOSE i \in Failed(res) : \A j \in Failed(res) : i <= j

\* Variant: the results taken in the order the tasks ended.
GetAll_by_completion(res) == [i \in DOMAIN res |-> res[completed[i]].val]

GetAll(res) == [i \in DOMAIN res |-> res[i].val]

\* Variant: a failed segment's exception is swallowed and the rest is merged.
Merge_skip_failed ==
    /\ pc = "merge"
    /\ pc' = "write"
    /\ translated_df' = reset_index(concat(GetAll(results)))
    /\ UNCHANGED <<df, num_threads, error, raised_from, dirs, df_chunks, taskqueue, workers,
                   results, logged, calls, completed, output_file>>

\* translated_df = pd.concat(translated_dfs).reset_index(drop=True)
Merge ==
    /\ pc = "merge"
    /\ IF Failed(results) # {}
       THEN /\ pc' = "failed"
            /\ error' = results[FirstFailed(results)].exc
            /\ raised_from' = FirstFailed(results)
            /\ UNCHANGED translated_df
       ELSE /\ pc' = "write"
            /\ translated_df' = reset_index(concat(GetAll(results)))
            /\ UNCHANGED <<error, raised_from>>
    /\ UNCHANGED <<df, num_threads, dirs, df_chunks, taskqueue, workers,
                   results, logged, calls, completed, output_file>>

\* translated_df.to_csv(output_file, index=False); return translated_df
WriteOutput ==
    /\ pc = "write"
    /\ output_file' = Append(output_file, translated_df)
    /\ pc' = "done"
    /\ UNCHANGED <<df, num_threads, error, raised_from, dirs, df_chunks, taskqueue, workers,
                   results, logged, calls, completed, translated_df>>

Next ==
    \/ MakeSaveDir
    \/ Split
    \/ MakeSegmentDirs
    \/ Dispatch
    \/ \E t \in DOMAIN workers : TakeTask(t)
    \/ \E t \in DOMAIN workers : StartCall(t)
    \/ \E t \in DOMAIN workers : ReturnCall(t)
    \/ \E t \in DOMAIN workers : FinishSegment(t)
    \/ Join
    \/ Merge
    \/ WriteOutput

Spec == Init /\ [][Next]_vars

\* The same runs when every provider call returns or raises and every thread
\* that can take a step is eventually scheduled: a step that stays possible
\* is eventually taken.
FairSpec == Init /\ [][Next]_vars /\ WF_vars(Next)

\* ------------------------------------------- runs on longer frames
\* Frames long enough for progress lines: every text a str, but for at most
\* one missing text.
LongFrames ==
    UNION {{[k \in 1..len |->
                [idx |-> k - 1, other |-> 100 + k,
                 text |-> IF k = m THEN NaN ELSE Str("a")]] :
              m \in 0..len} : len \in 0..MaxLongRows}

InitLong ==
    /\ df \in LongFrames
    /\ num_threads \in {1, 2}
    /\ pc = "start"
    /\ error = ""
    /\ raised_from = 0
    /\ dirs = {}
    /\ df_chunks = << >>
    /\ taskqueue = << >>
    /\ workers = << >>
    /\ results = << >>
    /\ logged = << >>
    /\ calls = [k \in 1..Len(df) |-> << >>]
    /\ completed = << >>
    /\ translated_df = << >>
    /\ output_file = << >>

SpecLong == InitLong /\ [][Next]_vars

\* ------------------------------------------ the functions, as functions
\* The same code run to its end under a provider that answers each text the
\* same way every time: p maps a text to the outcome of translating it.
RECURSIVE translated_texts_of(_, _, _)
\* The loop of translate_dataframe_segment: the list it builds, or the first
\* exception that leaves translate_text.
translated_texts_of(rows, lang, p) ==
    IF rows = << >>
    THEN [raised |-> FALSE, val |-> << >>, exc |-> ""]
    ELSE LET r == translate_text(Head(rows).text, lang, p[Head(rows).text])
         IN IF r.raised
            THEN [raised |-> TRUE, val |-> << >>, exc |-> r.exc]
            ELSE LET rest == translated_texts_of(Tail(rows), lang, p)
                 IN IF rest.raised
                    THEN rest
                    ELSE [raised |-> FALSE, val |-> <<r.val>> \o rest.val,
                          exc |-> ""]

translate_dataframe_segment(seg, lang, p) ==
    LET t == translated_texts_of(seg, lang, p)
    IN IF t.raised
       THEN [st |-> "error", val |-> << >>, exc |-> t.exc]
       ELSE AddColumn(seg, t.val)

\* translate_dataframe for num_threads >= 1: the frame it returns, or the
\* exception of the first failed segment.
translate_dataframe(frame, n, lang, p) ==
    LET chunks == Partition(frame, n)
        res == [i \in 1..n |-> translate_dataframe_segment(chunks[i], lang, p)]
    IN IF Failed(res) # {}
       THEN [st |-> "error", val |-> << >>, exc |-> res[FirstFailed(res)].exc]
       ELSE [st |-> "value", val |-> reset_index(concat(GetAll(res))), exc |-> ""]

\* ----------------------------------------------------- shared vocabulary
Partitioned == pc \notin {"start", "split"} /\ num_threads >= 1

\* The outcome of the provider call made for input row k (its last one).
OutcomeOf(k) == calls[k][Len(calls[k])]

\* What translate_text gave for input row k.
TranslatedTextOf(k) == translate_text(df[k].text, target_language, OutcomeOf(k)).val

\* ------------------------------------------------------------------ C1
\* C1: a run with num_threads >= 1 that completes writes as many rows as the
\* input has, and row k of the merged output is input row k with the
\* translation obtained for it, whatever order the segments ended in.
C1_MergedInInputOrder ==
    (pc = "done" /\ num_threads >= 1) =>
        /\ Len(output_file) = 1
        /\ output_file[1] = translated_df
        /\ Len(translated_df) = Len(df)
        /\ \A k \in 1..Len(df) :
              /\ translated_df[k].idx = df[k].idx
              /\ translated_df[k].text = df[k].text
              /\ calls[k] # << >>
              /\ translated_df[k].text_translated = TranslatedTextOf(k)

\* A completed two-segment run whose second segment ended before its first,
\* on rows that differ in text and in outcome.
C1_Witness ==
    /\ pc = "done"
    /\ num_threads = 2
    /\ Len(df) = 3
    /\ completed = <<2, 1>>
    /\ df[1].text # df[3].text
    /\ translated_df[1].text_translated # translated_df[3].text_translated

\* ------------------------------------------------------------------ C2
\* C2: for num_threads >= 1 and a non-empty input the split gives exactly
\* num_threads segments, and their concatenation in index order is the input:
\* nothing duplicated, dropped or reordered.
C2_PartitionReconstructs ==
    (Partitioned /\ Len(df) >= 1) =>
        /\ Len(df_chunks) = num_threads
        /\ concat(df_chunks) = df

\* A split with a remainder: 3 rows over 2 segments.
C2_Witness ==
    /\ pc = "mkdirs"
    /\ num_threads = 2
    /\ Len(df) = 3
    /\ Len(df_chunks[2]) = 2

\* ------------------------------------------------------------------ C3
\* C3: with size = floor(len/n), segments 0..n-2 are the consecutive runs of
\* size records, the last holds size + (len mod n) records, is never smaller
\* than another, and is non-empty whenever len >= n.
C3_SegmentSizes ==
    Partitioned =>
        LET n == num_threads
            size == Len(df) \div n
        IN /\ Len(df_chunks) = n
           /\ \A i \in 1..(n - 1) :
                 df_chunks[i] = SubSeq(df, (i - 1) * size + 1, i * size)
           /\ Len(df_chunks[n]) = size + (Len(df) % n)
           /\ \A i \in 1..n : Len(df_chunks[n]) >= Len(df_chunks[i])
           /\ (Len(df) >= n => df_chunks[n] # << >>)

\* Two segments of 3 rows: one row, then two.
C3_Witness ==
    /\ Partitioned
    /\ num_threads = 2
    /\ Len(df) = 3
    /\ Len(df_chunks[1]) = 1
    /\ Len(df_chunks[2]) = 2

\* ------------------------------------------------------------------ C4
\* The rows of segment i (by position) whose provider call raised.
FailedRows(i) ==
    {k \in 1..Len(df_chunks[i]) :
        /\ calls[df_chunks[i][k].idx + 1] # << >>
        /\ OutcomeOf(df_chunks[i][k].idx + 1) = "err"}

\* C4: when the provider fails for exactly one row of a segment of k rows,
\* the segment translator returns k rows in input order, the failing row
\* holding the sentinel and every other row the provider's translation.
C4_OneFailureIsolated ==
    \A i \in DOMAIN results :
        (results[i].st # "pending" /\ Cardinality(FailedRows(i)) = 1) =>
            /\ results[i].st = "value"
            /\ Len(results[i].val) = Len(df_chunks[i])
            /\ \A k \in 1..Len(results[i].val) :
                  /\ results[i].val[k].text = df_chunks[i][k].text
                  /\ results[i].val[k].text_translated =
                        IF k \in FailedRows(i)
                        THEN Sentinel
                        ELSE Translation(df_chunks[i][k].text, target_language)

\* ------------------------------------------------------------------ C5
\* C5: no per-row fault leaves the segment translator: whatever the row's
\* text and whatever the provider raises, every segment's task ends with a
\* segment, never with an exception.
C5_NoFaultEscapes ==
    \A i \in DOMAIN results : results[i].st # "error"

\* ------------------------------------------------------------------ C6
\* C6: once a worker has failed, the run fails: nothing is merged, the
\* output file is never written, and translate_dataframe ends raising.
C6_WorkerFailureFailsRun ==
    (\E i \in DOMAIN results : results[i].st = "error") =>
        /\ output_file = << >>
        /\ translated_df = << >>
        /\ pc \in {"join", "merge", "failed"}
        /\ (pc = "failed" => error # "")

\* A failed run in which another segment had been translated in full.
C6_Witness ==
    /\ pc = "failed"
    /\ \E i \in DOMAIN results : results[i].st = "error"
    /\ \E i \in DOMAIN results : results[i].st = "value" /\ results[i].val # << >>

\* ------------------------------------------------------------------ C7
\* C7: a run with num_threads <= 0 fails before any work starts: no segment
\* is dispatched, no provider call is made, no directory and no output is
\* created.
C7_NonPositiveFailsBeforeWork ==
    num_threads <= 0 =>
        /\ dirs = {}
        /\ workers = << >>
        /\ taskqueue = << >>
        /\ \A k \in 1..Len(df) : calls[k] = << >>
        /\ output_file = << >>
        /\ pc \in {"start", "split", "failed"}

\* ------------------------------------------------------------------ C8
\* C8: a run on an empty dataset with num_threads >= 1 fails before any work
\* starts: no worker is dispatched and no output is written.
C8_EmptyInputFailsBeforeWork ==
    (df = << >> /\ num_threads >= 1) =>
        /\ workers = << >>
        /\ taskqueue = << >>
        /\ output_file = << >>
        /\ pc # "done"

\* ------------------------------------------------------------------ C9
RECURSIVE InFlight(_)
\* The provider calls the threads ws are waiting in.
InFlight(ws) == IF ws = << >> THEN 0 ELSE Head(ws).inflight + InFlight(Tail(ws))

\* C9: the provider calls in flight never exceed num_threads: no more than
\* num_threads workers execute, and each has at most one call out, for the
\* row that follows the rows it has already translated, in segment order.
C9_InFlightBounded ==
    /\ InFlight(workers) <= Max(num_threads, 0)
    /\ Cardinality({t \in DOMAIN workers : workers[t].st = "busy"})
          <= Max(num_threads, 0)
    /\ \A t \in DOMAIN workers :
          LET w == workers[t]
          IN /\ w.inflight <= 1
             /\ w.st = "busy" =>
                   /\ w.pos = Len(w.translated_texts)
                   /\ w.pos + w.inflight <= Len(df_chunks[w.task])
                   /\ \A k \in 1..w.pos :
                         w.translated_texts[k] \in
                            {Translation(df_chunks[w.task][k].text, target_language),
                             Sentinel}

\* Both threads of a two-thread pool are inside a provider call.
C9_Witness ==
    /\ num_threads = 2
    /\ InFlight(workers) = 2

\* ----------------------------------------------------------------- C10
\* Every call made for the same text had the same outcome.
ProviderDeterministic ==
    \A j, k \in 1..Len(df) :
        df[j].text = df[k].text =>
            \A a \in 1..Len(calls[j]), b \in 1..Len(calls[k]) :
                calls[j][a] = calls[k][b]

\* The provider as a function of the text, read off the calls made.
ProviderOf ==
    [t \in Texts |->
        IF \E k \in 1..Len(df) : df[k].text = t /\ calls[k] # << >>
        THEN OutcomeOf(CHOOSE k \in 1..Len(df) : df[k].text = t /\ calls[k] # << >>)
        ELSE "ok"]

\* C10: under a deterministic provider a run with any num_threads >= 1 ends
\* as the run with num_threads = 1 does: the same merged output row for row,
\* or the same failure.
C10_SameAsOneThread ==
    (num_threads >= 1 /\ pc \in {"done", "failed"} /\ ProviderDeterministic) =>
        LET one == translate_dataframe(df, 1, target_language, ProviderOf)
        IN /\ pc = "done" => (one.st = "value" /\ output_file = <<one.val>>)
           /\ pc = "failed" => (one.st = "error" /\ one.exc = error)

\* A completed two-segment run under a deterministic provider that failed
\* for the text shared by a row of each segment.
C10_Witness ==
    /\ pc = "done"
    /\ num_threads = 2
    /\ Len(df) = 3
    /\ ProviderDeterministic
    /\ df[1].text = df[3].text
    /\ df[1].text # df[2].text
    /\ translated_df[1].text_translated = Sentinel
    /\ translated_df[2].text_translated # Sentinel

\* ----------------------------------------------------------------- C11
\* C11: when num_threads exceeds the row count the run does not fail:
\* segments 0..n-2 are empty, the last holds every row, the task of each
\* empty segment ends with an empty result, and the merged output holds
\* every input row in order.
C11_MoreThreadsThanRows ==
    (num_threads >= 1 /\ num_threads > Len(df)) =>
        /\ pc # "failed"
        /\ Partitioned =>
              /\ \A i \in 1..(num_threads - 1) : df_chunks[i] = << >>
              /\ df_chunks[num_threads] = df
        /\ \A i \in DOMAIN results :
              (i < num_threads /\ results[i].st # "pending") =>
                  (results[i].st = "value" /\ results[i].val = << >>)
        /\ pc = "done" =>
              /\ Len(translated_df) = Len(df)
              /\ \A k \in 1..Len(df) : translated_df[k].text = df[k].text

\* ----------------------------------------------------------------- C12
\* Row out is row in with the text_translated column added and no other
\* column changed.
SameButTranslated(out, in) ==
    /\ DOMAIN out = DOMAIN in \cup {"text_translated"}
    /\ out.other = in.other
    /\ out.text = in.text

\* C12: translation changes nothing but the added text_translated field:
\* every row a segment's task returns, every row of the merged frame and
\* every row written keeps the columns of the input row at its position.
C12_OnlyTranslationAdded ==
    /\ \A i \in DOMAIN results :
          results[i].st = "value" =>
              /\ Len(results[i].val) = Len(df_chunks[i])
              /\ \A k \in 1..Len(df_chunks[i]) :
                    /\ SameButTranslated(results[i].val[k], df_chunks[i][k])
                    /\ results[i].val[k].idx = df_chunks[i][k].idx
    /\ pc \in {"write", "done"} =>
          /\ Len(translated_df) = Len(df)
          /\ \A k \in 1..Len(df) : SameButTranslated(translated_df[k], df[k])
    /\ \A f \in 1..Len(output_file) :
          /\ Len(output_file[f]) = Len(df)
          /\ \A k \in 1..Len(df) : SameButTranslated(output_file[f][k], df[k])

\* A written three-row output whose second row is an empty text with its
\* translation beside it.
C12_Witness ==
    /\ pc = "done"
    /\ Len(df) = 3
    /\ num_threads = 2
    /\ output_file[1][2].text = Str("")
    /\ output_file[1][2].text_translated = Translation(Str(""), target_language)

\* ----------------------------------------------------------------- C13
\* The run's stage at position s of translate_dataframe: 1 Created,
\* 2 Partitioned, 3 Dispatched, 4 Completed, 5 Merged, 6 Done; 0 is a run
\* that raised.
StageOf(s) ==
    CASE s \in {"start", "split"} -> 1
      [] s \in {"mkdirs", "dispatch"} -> 2
      [] s = "join" -> 3
      [] s = "merge" -> 4
      [] s = "write" -> 5
      [] s = "done" -> 6
      [] OTHER -> 0

\* Every task has ended and its result is there to read.
AllTasksOver ==
    /\ taskqueue = << >>
    /\ \A t \in DOMAIN workers : workers[t].st = "idle"
    /\ DOMAIN results = 1..num_threads
    /\ \A i \in DOMAIN results : results[i].st # "pending"

\* C13: a run passes its stages in the order Created, Partitioned,
\* Dispatched, Completed, Merged, Done, one at a time (or ends raising); the
\* merge starts only when every task is over, and the output is written
\* once, after the merge of all num_threads segments.
C13_StagesInOrder ==
    [][/\ StageOf(pc') \in {StageOf(pc), StageOf(pc) + 1, 0}
       /\ (StageOf(pc) \in {0, 6} => pc' = pc)
       /\ (StageOf(pc') >= 4 => AllTasksOver')
       /\ (translated_df' # translated_df =>
              /\ pc = "merge"
              /\ AllTasksOver
              /\ Len(translated_df') = Len(concat(GetAll(results))))
       /\ (output_file' # output_file =>
              /\ pc = "write"
              /\ output_file = << >>
              /\ output_file' = <<translated_df>>)
       /\ (pc' = "done" => Len(output_file') = 1)
       /\ (pc' # "done" => output_file' = << >>)]_vars

\* A finished run of two one-row segments that ended in index order.
C13_Witness ==
    /\ pc = "done"
    /\ Len(output_file) = 1
    /\ num_threads = 2
    /\ Len(df) = 2
    /\ completed = <<1, 2>>

\* ----------------------------------------------------------------- C14
\* c, 2c, ..., m*c
Multiples(c, m) == [j \in 1..m |-> c * j]

\* The rows of segment i processed so far: translate_text has returned for
\* them, with a translation or the sentinel.
Processed(i) ==
    Cardinality({k \in 1..Len(df_chunks[i]) :
        /\ calls[df_chunks[i][k].idx + 1] # << >>
        /\ ~translate_text(df_chunks[i][k].text, target_language,
                           OutcomeOf(df_chunks[i][k].idx + 1)).raised})

\* The intervals a job may configure.
ConfigurableIntervals == 1..(2 * checkpoint_interval)

IdleThreads == {t \in DOMAIN workers : workers[t].st = "idle"}

\* The threads running segment i.
RunningOn(i) == {t \in DOMAIN workers : workers[t].st = "busy" /\ workers[t].task = i}

\* The places of the queue holding segment i.
QueuedAt(i) == {q \in 1..Len(taskqueue) : taskqueue[q] = i}

\* C15 as claimed: segments and threads are one-to-one: no thread runs two
\* segments, and a queued segment never lacks an idle thread.
C15_OneThreadPerSegment ==
    /\ \A i, j \in DOMAIN results :
          (i # j /\ results[i].by # 0 /\ results[j].by # 0) =>
              results[i].by # results[j].by
    /\ \A i \in DOMAIN results :
          \A t \in RunningOn(i) :
              \A j \in DOMAIN results : j # i => results[j].by # t
    /\ Len(taskqueue) <= Cardinality(IdleThreads)

\* C15 as amended: the pool has num_threads threads for the num_threads
\* segments, every segment is queued, run by one thread, or over, never
\* two of these, and the queued segments never outnumber the idle threads.
C15_ThreadForEveryQueuedSegment ==
    pc \in {"join", "merge", "write", "done"} =>
        /\ Len(workers) = num_threads
        /\ Len(taskqueue) <= Cardinality(IdleThreads)
        /\ \A i \in 1..num_threads :
              Cardinality(QueuedAt(i)) + Cardinality(RunningOn(i))
                 + (IF results[i].st # "pending" THEN 1 ELSE 0) = 1
        /\ \A i \in 1..num_threads :
              results[i].st # "pending" => results[i].by \in DOMAIN workers

\* A finished run whose two segments were both run by the same thread.
C15_Witness ==
    /\ pc = "done"
    /\ num_threads = 2
    /\ Len(df) = 3
    /\ results[1].by = results[2].by

\* ----------------------------------------------------------------- C16
\* C16: with provider calls that return or raise and threads that are
\* scheduled, every run with num_threads >= 1 ends: done with the merged
\* output written, or failed; it does not stay in the join.
C16_Terminates ==
    (num_threads >= 1) ~> (pc \in {"done", "failed"})

\* A run that ended done after two different threads ran its two segments.
C16_Witness ==
    /\ pc = "done"
    /\ num_threads = 2
    /\ Len(df) = 3
    /\ results[1].by # results[2].by
    /\ output_file = <<translated_df>>

\* ----------------------------------------------------------------- C17
\* The per-segment working directories that exist.
SegmentDirs == {d \in dirs : d[1] = "sub_dfs_translated"}

\* C17: every per-segment working directory the run created is released
\* once its segment is merged: none exists when the run is done.
C17_SegmentDirsReleased ==
    pc = "done" => SegmentDirs = {}

\* ----------------------------------------------------------------- C18
RECURSIVE TotalCalls(_)
\* The provider calls made, over the rows of the call log cs.
TotalCalls(cs) == IF cs = << >> THEN 0 ELSE Len(Head(cs)) + TotalCalls(Tail(cs))

\* C18: in a run with num_threads >= 1 no row is ever sent to the provider
\* twice, and when every task has ended without a failure each row has been
\* sent exactly once: the calls made are as many as the input rows.
C18_OneCallPerRow ==
    num_threads >= 1 =>
        /\ \A k \in 1..Len(df) : Len(calls[k]) <= 1
        /\ (pc \in {"merge", "write", "done"} /\ Failed(results) = {}) =>
              /\ \A k \in 1..Len(df) : Len(calls[k]) = 1
              /\ TotalCalls(calls) = Len(df)

\* A finished three-row run whose provider raised once, for the second row.
C18_Witness ==
    /\ pc = "done"
    /\ num_threads = 2
    /\ calls = <<<<"ok">>, <<"err">>, <<"ok">>>>

\* ----------------------------------------------------------------- C19
\* A pool thread can take a step.
SomeThreadCanStep ==
    ENABLED (\E t \in DOMAIN workers :
                TakeTask(t) \/ StartCall(t) \/ ReturnCall(t) \/ FinishSegment(t))

\* C19: a failing worker does not cancel the others. The step in which a
\* task fails leaves the queue, the other threads and the other results as
\* they are and surfaces nothing; while tasks remain after a failure a
\* thread can still step; the failure is raised only when every task is
\* over, the others having run to their end, and it is the exception of the
\* failed segment of lowest index.
C19_FailureDoesNotCancel ==
    [][/\ \A i \in DOMAIN results :
             (results[i].st # "error" /\ results'[i].st = "error") =>
                 /\ taskqueue' = taskqueue
                 /\ \A t \in DOMAIN workers :
                       workers[t].task # i => workers'[t] = workers[t]
                 /\ \A j \in DOMAIN results : j # i => results'[j] = results[j]
                 /\ pc' = "join"
                 /\ error' = ""
       /\ (Failed(results) # {} /\ pc = "join" /\ ~AllTasksOver) => SomeThreadCanStep
       /\ (Failed(results) # {} /\ pc' = "failed") =>
             /\ AllTasksOver
             /\ \A i \in DOMAIN results :
                   results[i].st = "value" =>
                       Len(results[i].val) = Len(df_chunks[i])
             /\ raised_from' \in Failed(results)
             /\ \A j \in Failed(results) : raised_from' <= j
             /\ error' = results[raised_from'].exc]_vars

\* Both segments failed, the second one first; the first one's exception is
\* the one raised.
C19_Witness ==
    /\ pc = "failed"
    /\ num_threads = 2
    /\ completed = <<2, 1>>
    /\ Failed(results) = {1, 2}
    /\ raised_from = 1

====
